---- MODULE Spec2Model ----
(***************************************************************************)
(* State-machine model of src/app/page.tsx: the App component (view,       *)
(* knowledge store, conversation log), the ChatInterface component (the    *)
(* composer, the mention popup, handleSend and the generateResponse timer) *)
(* and the KnowledgeManager component (the creation form).                 *)
(*                                                                         *)
(* Text.  A JavaScript string typed by the user, a title or a content is a *)
(* sequence of one-character strings, so that lastIndexOf, slice, trim,    *)
(* toLowerCase, includes and the mention regex are computed character by   *)
(* character.  A text built by a template literal is the concatenation of  *)
(* its pieces; the literal pieces of a template are kept as single         *)
(* elements (they are never parsed again by the program).                  *)
(*                                                                         *)
(* Ids.  Date.now().toString() is injective on the integers Date.now()     *)
(* returns and the seeded ids '1', '2', '3' are the decimal forms of 1, 2, *)
(* 3, so an id is modelled by the integer it is the decimal form of.       *)
(***************************************************************************)
EXTENDS Integers, Sequences, FiniteSets, TLC

VARIABLES view, knowledgeBases, messages, input, isTyping, mentionQuery,
          mentionIndex, isCreating, pending, now, event, events

vars == <<view, knowledgeBases, messages, input, isTyping, mentionQuery,
          mentionIndex, isCreating, pending, now, event, events>>

----------------------------------------------------------------------------
(* Bounds of the model *)

\* No send is accepted once the log, with the replies still owed, would
\* grow beyond MaxMsgs messages.
MaxMsgs == 5

\* No entry is created once the store holds MaxKBs entries.
MaxKBs == 4

\* The user does at most MaxEvents things (keystrokes, clicks); the timers
\* of the calls already made always run.
MaxEvents == 6

\* The clock advances at most MaxTicks times.
MaxTicks == 1

\* Date.now() when the page is loaded (any value above the seeded ids).
StartTime == 100

\* Longest text of the exhaustively enumerated composer inputs.
MaxLen == 4

----------------------------------------------------------------------------
(* Seeded data: the literals of useState at lines 80-88 *)

TitleProductDocs ==
  <<"P", "r", "o", "d", "u", "c", "t", " ", "D", "o", "c", "s">>

TitleMarketingCopy ==
  <<"M", "a", "r", "k", "e", "t", "i", "n", "g", " ", "C", "o", "p", "y">>

TitleQ3Financials ==
  <<"Q", "3", " ", "F", "i", "n", "a", "n", "c", "i", "a", "l", "s">>

ContentProductDocs ==
  <<"T", "h", "e", " ", "p", "r", "o", "d", "u", "c", "t", " ", "a", "l", "l", "o",
    "w", "s", " ", "u", "s", "e", "r", "s", " ", "t", "o", " ", "c", "h", "a", "t",
    " ", "w", "i", "t", "h", " ", "d", "o", "c", "u", "m", "e", "n", "t", "s", ".",
    " ", "I", "t", " ", "s", "u", "p", "p", "o", "r", "t", "s", " ", "m", "a", "r",
    "k", "d", "o", "w", "n", " ", "a", "n", "d", " ", "e", "x", "p", "o", "r", "t",
    "s", ".">>

ContentMarketingCopy ==
  <<"O", "u", "r", " ", "b", "r", "a", "n", "d", " ", "v", "o", "i", "c", "e", " ",
    "i", "s", " ", "f", "r", "i", "e", "n", "d", "l", "y", ",", " ", "p", "r", "o",
    "f", "e", "s", "s", "i", "o", "n", "a", "l", ",", " ", "a", "n", "d", " ", "c",
    "o", "n", "c", "i", "s", "e", ".", " ", "W", "e", " ", "u", "s", "e", " ", "b",
    "l", "u", "e", " ", "a", "n", "d", " ", "w", "h", "i", "t", "e", " ", "a", "s",
    " ", "p", "r", "i", "m", "a", "r", "y", " ", "c", "o", "l", "o", "r", "s", ".">>

ContentQ3Financials ==
  <<"R", "e", "v", "e", "n", "u", "e", " ", "u", "p", " ", "2", "0", "%", " ", "Q",
    "o", "Q", ".", " ", "O", "p", "e", "r", "a", "t", "i", "n", "g", " ", "e", "x",
    "p", "e", "n", "s", "e", "s", " ", "s", "t", "a", "b", "l", "e", ".", " ", "K",
    "e", "y", " ", "g", "r", "o", "w", "t", "h", " ", "i", "n", " ", "e", "n", "t",
    "e", "r", "p", "r", "i", "s", "e", " ", "s", "e", "c", "t", "o", "r", ".">>

\* useState initial value of knowledgeBases (the tags are only rendered and
\* are read by no handler, so an entry is modelled by id, title, content).
SeedKnowledgeBases ==
  << [id |-> 1, title |-> TitleProductDocs, content |-> ContentProductDocs],
     [id |-> 2, title |-> TitleMarketingCopy, content |-> ContentMarketingCopy],
     [id |-> 3, title |-> TitleQ3Financials, content |-> ContentQ3Financials] >>

\* useState initial value of messages, loaded when the clock reads t.
SeedMessages(t) ==
  << [id |-> 1, role |-> "assistant",
      content |-> <<"Hello! You can chat with me normally, or type '@' to reference a Knowledge Base.">>,
      timestamp |-> t] >>

MOCK_AI_RESPONSES ==
  << "That's an interesting point. Tell me more.",
     "I can certainly help with that based on the context provided.",
     "Here's a summary of what I found in your knowledge base.",
     "Could you clarify exactly what you mean?",
     "Let me analyze that information for you." >>

----------------------------------------------------------------------------
(* JavaScript string and array primitives used by the handlers *)

Min(a, b) == IF a < b THEN a ELSE b

Range(s) == {s[i] : i \in DOMAIN s}

\* s.slice(start, end) for start, end >= 0 (0-based, end exclusive, clamped).
Slice(s, start, end) == SubSeq(s, Min(start, Len(s)) + 1, Min(end, Len(s)))

\* s.slice(start)
SliceFrom(s, start) == Slice(s, start, Len(s))

\* s.lastIndexOf(c): the 0-based index of the last c, or -1.
LastIndexOf(s, c) ==
  LET at == {i \in DOMAIN s : s[i] = c}
  IN  IF at = {} THEN -1 ELSE (CHOOSE i \in at : \A j \in at : j <= i) - 1

WhiteSpace == {" ", "\t", "\n", "\r"}

\* s.trim()
Trim(s) ==
  LET ink == {i \in DOMAIN s : s[i] \notin WhiteSpace}
  IN  IF ink = {} THEN <<>>
      ELSE SubSeq(s, CHOOSE i \in ink : \A j \in ink : i <= j,
                     CHOOSE i \in ink : \A j \in ink : j <= i)

UpperCaseLetters ==
  <<"A", "B", "C", "D", "E", "F", "G", "H", "I", "J", "K", "L", "M",
    "N", "O", "P", "Q", "R", "S", "T", "U", "V", "W", "X", "Y", "Z">>

LowerCaseLetters ==
  <<"a", "b", "c", "d", "e", "f", "g", "h", "i", "j", "k", "l", "m",
    "n", "o", "p", "q", "r", "s", "t", "u", "v", "w", "x", "y", "z">>

ToLowerCaseChar(c) ==
  IF \E i \in DOMAIN UpperCaseLetters : UpperCaseLetters[i] = c
  THEN LowerCaseLetters[CHOOSE i \in DOMAIN UpperCaseLetters : UpperCaseLetters[i] = c]
  ELSE c

\* s.toLowerCase()
ToLowerCase(s) ==
  IF s = <<>> THEN <<>> ELSE [i \in 1..Len(s) |-> ToLowerCaseChar(s[i])]

\* s.includes(q): q occurs in s as a contiguous substring.
Includes(s, q) ==
  \E off \in 0..(Len(s) - Len(q)) : SubSeq(s, off + 1, off + Len(q)) = q

\* parts.join(sep)
RECURSIVE Join(_, _)
Join(parts, sep) ==
  IF parts = <<>> THEN <<>>
  ELSE IF Len(parts) = 1 THEN parts[1]
  ELSE parts[1] \o sep \o Join(Tail(parts), sep)

----------------------------------------------------------------------------
(* generateResponse, lines 46-74 *)

\* The index of the first "]" of s at or after position i (1-based), 0 if none.
FirstClose(s, i) ==
  LET at == {j \in i..Len(s) : s[j] = "]"}
  IN  IF at = {} THEN 0 ELSE CHOOSE j \in at : \A k \in at : j <= k

\* [...s.matchAll(/@\[([^\]]+)\]/g)].map(m => m[1]) from position i on: the
\* leftmost match at or after i, then the scan resumes after its "]".
RECURSIVE MatchAllFrom(_, _)
MatchAllFrom(s, i) ==
  IF i + 3 > Len(s) THEN <<>>
  ELSE IF s[i] = "@" /\ s[i + 1] = "["
       THEN LET j == FirstClose(s, i + 2)
            IN  IF j > i + 2
                THEN <<SubSeq(s, i + 2, j - 1)>> \o MatchAllFrom(s, j + 1)
                ELSE MatchAllFrom(s, i + 1)
       ELSE MatchAllFrom(s, i + 1)

\* lines 53-55
MentionedTitles(userMessage) == MatchAllFrom(userMessage, 1)

\* UsedKBs with the titles compared ignoring case, as the popup does.
UsedKBsIgnoringCase(userMessage, kbs) ==
  SelectSeq(kbs, LAMBDA kb :
    \E t \in Range(MentionedTitles(userMessage)) :
      ToLowerCase(t) = ToLowerCase(kb.title))

\* line 57
UsedKBs(userMessage, kbs) ==
  SelectSeq(kbs, LAMBDA kb : kb.title \in Range(MentionedTitles(userMessage)))

\* line 62
ContextSummary(usedKBs) ==
  Join([i \in 1..Len(usedKBs) |-> <<"\"">> \o usedKBs[i].title \o <<"\"">>],
       <<" and ">>)

\* ResponseText with the trimmed user text echoed in the fallback reply.
ResponseTextTrimmed(userMessage, usedKBs, r) ==
  IF Len(usedKBs) > 0
  THEN <<"I've analyzed the content from ">> \o ContextSummary(usedKBs)
       \o <<". \n\nBased on that knowledge: ">> \o <<MOCK_AI_RESPONSES[r]>>
       \o <<"\n\n(Context used: ">> \o Slice(usedKBs[1].content, 0, 50)
       \o <<"...)">>
  ELSE <<"I received your message: \"">> \o Trim(userMessage)
       \o <<"\". I didn't see any specific knowledge base tagged, so I'm answering with my general training.">>

\* lines 59-66; r is the value of Math.floor(Math.random() * 5) + 1
ResponseText(userMessage, usedKBs, r) ==
  IF Len(usedKBs) > 0
  THEN <<"I've analyzed the content from ">> \o ContextSummary(usedKBs)
       \o <<". \n\nBased on that knowledge: ">> \o <<MOCK_AI_RESPONSES[r]>>
       \o <<"\n\n(Context used: ">> \o Slice(usedKBs[1].content, 0, 50)
       \o <<"...)">>
  ELSE <<"I received your message: \"">> \o userMessage
       \o <<"\". I didn't see any specific knowledge base tagged, so I'm answering with my general training.">>

\* The value the promise resolves with, lines 68-71.
GenerateResponse(userMessage, kbs, r) ==
  LET usedKBs == UsedKBs(userMessage, kbs)
  IN  [text |-> ResponseText(userMessage, usedKBs, r),
       usedContext |-> [i \in 1..Len(usedKBs) |-> usedKBs[i].id]]

----------------------------------------------------------------------------
(* ChatInterface, lines 153-260 *)

\* mentionQuery is string | null: <<>> is null, <<q>> is the string q.
Null == <<>>
Some(q) == <<q>>

\* FilteredKBs without the two toLowerCase calls.
FilteredKBsCaseSensitive(kbs, query) ==
  IF query = Null THEN <<>>
  ELSE SelectSeq(kbs, LAMBDA kb : Includes(kb.title, query[1]))

\* filteredKBs, lines 255-260
FilteredKBs(kbs, query) ==
  IF query = Null THEN <<>>
  ELSE SelectSeq(kbs, LAMBDA kb :
                   Includes(ToLowerCase(kb.title), ToLowerCase(query[1])))

\* SelectText without the space after the closing bracket.
SelectTextNoSpace(text, index, query, title) ==
  LET before == Slice(text, 0, index)
      after  == SliceFrom(text, index + Len(query[1]) + 1)
  IN  before \o <<"@", "[">> \o title \o <<"]">> \o after

\* The text handleSelectKB puts in the composer, lines 200-203.
SelectText(text, index, query, title) ==
  LET before == Slice(text, 0, index)
      after  == SliceFrom(text, index + Len(query[1]) + 1)
  IN  before \o <<"@", "[">> \o title \o <<"]", " ">> \o after

\* mentionQuery and mentionIndex after handleInputChange(newVal), lines 180-194
MentionOf(newVal) ==
  LET lastAtPos == LastIndexOf(newVal, "@")
      textAfterAt == SliceFrom(newVal, lastAtPos + 1)
  IN  IF lastAtPos # -1 /\ ~Includes(textAfterAt, <<" ">>)
      THEN [query |-> Some(textAfterAt), index |-> lastAtPos]
      ELSE [query |-> Null, index |-> -1]

----------------------------------------------------------------------------
(* Inputs of the handlers *)

\* Texts the user leaves in the composer (handleInputChange's e.target.value).
TypedTexts ==
  { <<" ">>,
    <<"h", "i">>,
    <<"a", " ", "@", "q">>,
    <<"@", "[", "N", "]">> }

\* Contents of the creation form when it is submitted.
NewTitles == { <<" ">>, <<"N">> }
NewContents == { <<>>, <<"n", "o", "t", "e">> }

----------------------------------------------------------------------------
(* The last event handled, and the number of user events handled so far *)

UserEvent(name) ==
  /\ events < MaxEvents
  /\ events' = events + 1
  /\ event' = name

----------------------------------------------------------------------------
(* Initial state: the first render of App, with the chat view mounted *)

Init ==
  /\ view = "chat"
  /\ knowledgeBases = SeedKnowledgeBases
  /\ messages = SeedMessages(StartTime)
  /\ input = <<>>
  /\ isTyping = FALSE
  /\ mentionQuery = Null
  /\ mentionIndex = -1
  /\ isCreating = FALSE
  /\ pending = <<>>
  /\ now = StartTime
  /\ event = "load"
  /\ events = 0

----------------------------------------------------------------------------
(* ChatInterface handlers *)

\* handleInputChange, lines 175-195
HandleInputChange(newVal) ==
  /\ view = "chat"
  /\ input' = newVal
  /\ mentionQuery' = MentionOf(newVal).query
  /\ mentionIndex' = MentionOf(newVal).index
  /\ UserEvent("type")
  /\ UNCHANGED <<view, knowledgeBases, messages, isTyping, isCreating, pending, now>>

\* handleSelectKB, lines 197-209: a click on a row of the mention popup,
\* which is rendered while mentionQuery !== null (line 351).
HandleSelectKB(kb) ==
  /\ view = "chat"
  /\ mentionQuery # Null
  /\ kb \in Range(FilteredKBs(knowledgeBases, mentionQuery))
  /\ IF mentionIndex = -1
     THEN UNCHANGED <<input, mentionQuery, mentionIndex>>
     ELSE /\ input' = SelectText(input, mentionIndex, mentionQuery, kb.title)
          /\ mentionQuery' = Null
          /\ mentionIndex' = -1
  /\ UserEvent("select")
  /\ UNCHANGED <<view, knowledgeBases, messages, isTyping, isCreating, pending, now>>

\* The message handleSend appends at line 221.
UserMsg(text, t) ==
  [id |-> t, role |-> "user", content |-> text, timestamp |-> t]

\* The generateResponse call of line 226: its arguments, and whether the
\* ChatInterface instance that awaits it is still mounted.
Call(text, kbs) ==
  [userMessage |-> text, knowledgeBases |-> kbs, live |-> TRUE]

\* handleSend up to its await, lines 211-226.
HandleSend ==
  IF Trim(input) = <<>>
  THEN UNCHANGED <<messages, input, isTyping, pending>>
  ELSE /\ Len(messages) + Len(pending) + 2 <= MaxMsgs
       /\ messages' = Append(messages, UserMsg(input, now))
       /\ input' = <<>>
       /\ isTyping' = TRUE
       /\ pending' = Append(pending, Call(input, knowledgeBases))

\* The send button, lines 391-397: disabled={!input.trim() || isTyping}.
ClickSend ==
  /\ view = "chat"
  /\ Trim(input) # <<>>
  /\ ~isTyping
  /\ HandleSend
  /\ UserEvent("click_send")
  /\ UNCHANGED <<view, knowledgeBases, mentionQuery, mentionIndex, isCreating, now>>

\* handleKeyDown with Enter and no Shift, lines 243-252.
PressEnter ==
  /\ view = "chat"
  /\ IF mentionQuery = Null
     THEN HandleSend
     ELSE UNCHANGED <<messages, input, isTyping, pending>>
  /\ UserEvent("enter")
  /\ UNCHANGED <<view, knowledgeBases, mentionQuery, mentionIndex, isCreating, now>>

\* The message handleSend appends at line 235.
AiMsg(response, t) ==
  [id |-> t + 1, role |-> "assistant", content |-> response.text,
   timestamp |-> t, usedContext |-> response.usedContext]

RemoveAt(s, i) == SubSeq(s, 1, i - 1) \o SubSeq(s, i + 1, Len(s))

\* Resolve with the mentions resolved against the store as it is when the
\* timer fires, instead of the store passed to the call.
ResolveWithCurrentStore(i, r) ==
  /\ i \in DOMAIN pending
  /\ LET call == pending[i]
         response == GenerateResponse(call.userMessage, knowledgeBases, r)
     IN  /\ messages' = Append(messages, AiMsg(response, now))
         /\ isTyping' = IF call.live THEN FALSE ELSE isTyping
  /\ pending' = RemoveAt(pending, i)
  /\ event' = "resolve"
  /\ UNCHANGED events
  /\ UNCHANGED <<view, knowledgeBases, input, mentionQuery, mentionIndex, isCreating, now>>

\* Resolve with the reply put right after the message it answers.
ResolveAfterQuestion(i, r) ==
  /\ i \in DOMAIN pending
  /\ LET call == pending[i]
         response == GenerateResponse(call.userMessage, call.knowledgeBases, r)
         asked == CHOOSE k \in DOMAIN messages :
                    /\ messages[k].role = "user"
                    /\ messages[k].content = call.userMessage
     IN  /\ messages' = SubSeq(messages, 1, asked) \o <<AiMsg(response, now)>>
                          \o SubSeq(messages, asked + 1, Len(messages))
         /\ isTyping' = IF call.live THEN FALSE ELSE isTyping
  /\ pending' = RemoveAt(pending, i)
  /\ event' = "resolve"
  /\ UNCHANGED events
  /\ UNCHANGED <<view, knowledgeBases, input, mentionQuery, mentionIndex, isCreating, now>>

\* Resolve with the reply dropped when the instance that made the call has
\* been unmounted.
ResolveIfMounted(i, r) ==
  /\ i \in DOMAIN pending
  /\ LET call == pending[i]
         response == GenerateResponse(call.userMessage, call.knowledgeBases, r)
     IN  /\ messages' = IF call.live THEN Append(messages, AiMsg(response, now))
                        ELSE messages
         /\ isTyping' = IF call.live THEN FALSE ELSE isTyping
  /\ pending' = RemoveAt(pending, i)
  /\ event' = "resolve"
  /\ UNCHANGED events
  /\ UNCHANGED <<view, knowledgeBases, input, mentionQuery, mentionIndex, isCreating, now>>

\* The timer of call i fires (line 51) and handleSend resumes, lines 228-240.
\* setIsTyping(false) acts on the instance that made the call, if mounted.
Resolve(i, r) ==
  /\ i \in DOMAIN pending
  /\ LET call == pending[i]
         response == GenerateResponse(call.userMessage, call.knowledgeBases, r)
     IN  /\ messages' = Append(messages, AiMsg(response, now))
         /\ isTyping' = IF call.live THEN FALSE ELSE isTyping
  /\ pending' = RemoveAt(pending, i)
  /\ event' = "resolve"
  /\ UNCHANGED events
  /\ UNCHANGED <<view, knowledgeBases, input, mentionQuery, mentionIndex, isCreating, now>>

----------------------------------------------------------------------------
(* App: the navigation buttons and the store, lines 78-149 *)

\* setView('chat'), line 110: coming from the knowledge view, KnowledgeManager
\* is unmounted and a new ChatInterface is mounted with its initial state.
SetViewChat ==
  /\ view' = "chat"
  /\ isCreating' = FALSE
  /\ UserEvent("nav_chat")
  /\ UNCHANGED <<knowledgeBases, messages, input, isTyping, mentionQuery,
                 mentionIndex, pending, now>>

\* setView('knowledge'), line 118: coming from the chat view, ChatInterface
\* is unmounted (its state is lost, its pending calls keep running).
SetViewKnowledge ==
  /\ view' = "knowledge"
  /\ input' = <<>>
  /\ isTyping' = FALSE
  /\ mentionQuery' = Null
  /\ mentionIndex' = -1
  /\ pending' = [i \in DOMAIN pending |-> [pending[i] EXCEPT !.live = FALSE]]
  /\ UserEvent("nav_knowledge")
  /\ UNCHANGED <<knowledgeBases, messages, isCreating, now>>

\* handleCreateKB, lines 90-93
HandleCreateKB(kb) ==
  /\ knowledgeBases' = Append(knowledgeBases, kb)
  /\ view' = "knowledge"

\* handleDeleteKB, lines 95-97: the delete button of a card, lines 535-541.
HandleDeleteKB(id) ==
  /\ view = "knowledge"
  /\ id \in {knowledgeBases[i].id : i \in DOMAIN knowledgeBases}
  /\ knowledgeBases' = SelectSeq(knowledgeBases, LAMBDA k : k.id # id)
  /\ UserEvent("delete")
  /\ UNCHANGED <<view, messages, input, isTyping, mentionQuery, mentionIndex,
                 isCreating, pending, now>>

----------------------------------------------------------------------------
(* KnowledgeManager, lines 412-441 *)

\* "Add Source", line 452
AddSource ==
  /\ view = "knowledge"
  /\ isCreating' = TRUE
  /\ UserEvent("add_source")
  /\ UNCHANGED <<view, knowledgeBases, messages, input, isTyping, mentionQuery,
                 mentionIndex, pending, now>>

\* The close and Cancel buttons of the form, lines 470 and 508
CancelCreate ==
  /\ view = "knowledge"
  /\ isCreating
  /\ isCreating' = FALSE
  /\ UserEvent("cancel")
  /\ UNCHANGED <<view, knowledgeBases, messages, input, isTyping, mentionQuery,
                 mentionIndex, pending, now>>

\* handleSubmit, lines 426-441, with the form holding newTitle and newContent.
HandleSubmit(newTitle, newContent) ==
  /\ view = "knowledge"
  /\ isCreating
  /\ IF Trim(newTitle) = <<>> \/ Trim(newContent) = <<>>
     THEN UNCHANGED <<knowledgeBases, view, isCreating>>
     ELSE /\ Len(knowledgeBases) < MaxKBs
          /\ HandleCreateKB([id |-> now, title |-> newTitle, content |-> newContent])
          /\ isCreating' = FALSE
  /\ UserEvent("submit")
  /\ UNCHANGED <<messages, input, isTyping, mentionQuery, mentionIndex, pending, now>>

----------------------------------------------------------------------------
(* The clock read by Date.now() *)

Tick ==
  /\ now < StartTime + MaxTicks
  /\ now' = now + 1
  /\ UNCHANGED <<view, knowledgeBases, messages, input, isTyping, mentionQuery,
                 mentionIndex, isCreating, pending, event, events>>

----------------------------------------------------------------------------

Next ==
  \/ \E newVal \in TypedTexts : HandleInputChange(newVal)
  \/ \E kb \in Range(knowledgeBases) : HandleSelectKB(kb)
  \/ ClickSend
  \/ PressEnter
  \/ \E i \in DOMAIN pending, r \in DOMAIN MOCK_AI_RESPONSES : Resolve(i, r)
  \/ SetViewChat
  \/ SetViewKnowledge
  \/ \E id \in {knowledgeBases[i].id : i \in DOMAIN knowledgeBases} : HandleDeleteKB(id)
  \/ AddSource
  \/ CancelCreate
  \/ \E t \in NewTitles, c \in NewContents : HandleSubmit(t, c)
  \/ Tick

Spec == Init /\ [][Next]_vars

\* Some timer fires. setTimeout (line 72) runs its callback after a finite
\* delay whatever the user does, and the callback always resolves the promise.
ResolveSome ==
  \E i \in DOMAIN pending, r \in DOMAIN MOCK_AI_RESPONSES : Resolve(i, r)

\* The chat side of the page: the composer, the timers and the two
\* navigation buttons, with the store left as seeded.
NextChat ==
  \/ \E newVal \in TypedTexts : HandleInputChange(newVal)
  \/ \E kb \in Range(knowledgeBases) : HandleSelectKB(kb)
  \/ ClickSend
  \/ PressEnter
  \/ ResolveSome
  \/ SetViewChat
  \/ SetViewKnowledge

SpecLive == Init /\ [][NextChat]_vars /\ WF_vars(ResolveSome)


----------------------------------------------------------------------------
(* The composer's functions on enumerated inputs: the chat view after the  *)
(* user has typed a text, for every text of at most MaxLen characters of   *)
(* FnAlphabet and some longer ones, over several stores.                   *)

FnAlphabet == {"@", "[", "]", " ", "a"}

RECURSIVE TextsUpTo(_)
TextsUpTo(n) ==
  IF n = 0 THEN {<<>>}
  ELSE LET shorter == TextsUpTo(n - 1)
       IN  shorter \cup {Append(t, c) : t \in {s \in shorter : Len(s) = n - 1}, c \in FnAlphabet}

TextCheckProd ==
  <<"c", "h", "e", "c", "k", " ", "@", "p", "r", "o", "d">>

TextCheckProductDocs ==
  <<"c", "h", "e", "c", "k", " ", "@", "[", "P", "r", "o", "d", "u", "c", "t", " ",
    "D", "o", "c", "s", "]", " ">>

TextSummarize ==
  <<"S", "u", "m", "m", "a", "r", "i", "z", "e", " ", "@", "[", "P", "r", "o", "d",
    "u", "c", "t", " ", "D", "o", "c", "s", "]">>

TextHello ==
  <<"h", "e", "l", "l", "o">>

TextTwice ==
  <<"@", "[", "a", "]", "@", "[", "a", "]">>

TextMentionOrder ==
  <<"@", "[", "A", "]", " ", "@", "[", "a", "]">>

TextNested ==
  <<"@", "[", "a", "@", "[", "A", "]">>

TextTwoSeeded ==
  <<"@", "[", "Q", "3", " ", "F", "i", "n", "a", "n", "c", "i", "a", "l", "s", "]",
    "@", "[", "P", "r", "o", "d", "u", "c", "t", " ", "D", "o", "c", "s", "]">>

FnTexts ==
  TextsUpTo(MaxLen)
    \cup {TextCheckProd, TextSummarize, TextHello, TextTwice, TextMentionOrder,
          TextNested, TextTwoSeeded, <<"@", "A">>, <<"@", "[", "A", "]">>,
          <<"A", " ", "@", "a", "A">>}

\* A store whose entries were created at successive clock values.
StoreOf(titles) ==
  [i \in 1..Len(titles) |->
     [id |-> StartTime + i, title |-> titles[i], content |-> <<"t", "e", "x", "t">>]]

FnStores ==
  { SeedKnowledgeBases,
    StoreOf(<<>>),
    StoreOf(<< <<"A">>, <<"a">>, <<"A">> >>),
    StoreOf(<< <<"a", "A">>, <<"a", "@", "[", "A">> >>) }

InitFn ==
  /\ view = "chat"
  /\ knowledgeBases \in FnStores
  /\ now = StartTime + 4
  /\ messages = SeedMessages(StartTime)
  /\ input \in FnTexts
  /\ mentionQuery = MentionOf(input).query
  /\ mentionIndex = MentionOf(input).index
  /\ isTyping = FALSE
  /\ isCreating = FALSE
  /\ pending = <<>>
  /\ event = "type"
  /\ events = MaxEvents - 2

NextFn ==
  \/ \E kb \in Range(knowledgeBases) : HandleSelectKB(kb)
  \/ ClickSend
  \/ PressEnter
  \/ \E i \in DOMAIN pending, r \in DOMAIN MOCK_AI_RESPONSES : Resolve(i, r)

SpecFn == InitFn /\ [][NextFn]_vars

----------------------------------------------------------------------------
(* Vocabulary of the properties *)

Ids(kbs) == {kbs[k].id : k \in DOMAIN kbs}

\* The entries of kbs at the positions in where, in the order of kbs.
Sub(kbs, where) ==
  [n \in 1..Cardinality(where) |->
     kbs[CHOOSE k \in where : Cardinality({m \in where : m < k}) = n - 1]]

\* text[i..j] reads "@[", then one or more characters other than "]", then "]".
ReadsAsToken(text, i, j) ==
  /\ i \in DOMAIN text /\ j \in DOMAIN text /\ j >= i + 3
  /\ text[i] = "@" /\ text[i + 1] = "[" /\ text[j] = "]"
  /\ \A k \in (i + 2)..(j - 1) : text[k] # "]"

\* The tokens of a left-to-right scan: of the places that read as a token up
\* to the same "]", the leftmost one.
TokenTitles(text) ==
  { SubSeq(text, i + 2, j - 1) :
      <<i, j>> \in { p \in (DOMAIN text) \X (DOMAIN text) :
                      /\ ReadsAsToken(text, p[1], p[2])
                      /\ \A h \in 1..(p[1] - 1) : ~ReadsAsToken(text, h, p[2]) } }

\* The positions of the entries of kbs whose title some token of text names.
Mentioned(text, kbs) == {k \in DOMAIN kbs : kbs[k].title \in TokenTitles(text)}

SameLetter(c, d) ==
  \/ c = d
  \/ \E n \in DOMAIN UpperCaseLetters :
       {c, d} = {UpperCaseLetters[n], LowerCaseLetters[n]}

ContainsIgnoringCase(t, q) ==
  \E off \in 0..(Len(t) - Len(q)) :
    \A k \in 1..Len(q) : SameLetter(t[off + k], q[k])

\* The place of the "@" after which text holds neither "@" nor a space.
QueryStarts(text) ==
  {i \in DOMAIN text :
     text[i] = "@" /\ \A j \in (i + 1)..Len(text) : text[j] \notin {"@", " "}}

ActiveQuery(text) ==
  SubSeq(text, (CHOOSE i \in QueryStarts(text) : TRUE) + 1, Len(text))

IsReply(m) == "usedContext" \in DOMAIN m

Last(s) == s[Len(s)]

\* This step appends the reply of a generateResponse call to the log.
Replied ==
  /\ Len(messages') = Len(messages) + 1
  /\ IsReply(Last(messages'))
  /\ Len(pending') = Len(pending) - 1

\* This step is an accepted send: a user message and a new call.
Sent ==
  /\ Len(messages') = Len(messages) + 1
  /\ Last(messages').role = "user"
  /\ Len(pending') = Len(pending) + 1

----------------------------------------------------------------------------
(* The claims *)

\* C1: at most one generateResponse call is outstanding at any time.
C1_AtMostOneOutstanding == Len(pending) <= 1

\* C2: while the chat view is displayed and some generateResponse call has
\* not resolved, isTyping is true.
C2_IndicatorCoversPending ==
  (view = "chat" /\ pending # <<>>) => isTyping

\* C3: no two entries of the knowledge store have the same id.
C3_UniqueKnowledgeIds ==
  \A i, j \in DOMAIN knowledgeBases :
    i # j => knowledgeBases[i].id # knowledgeBases[j].id

\* C4 as stated: when a reply is appended, every id of its usedContext is
\* the id of an entry of the store at that moment (when the promise resolves).
C4_ContextInStoreAtResolution ==
  [][Replied => Range(Last(messages').usedContext) \subseteq Ids(knowledgeBases)]_vars

\* C4 as amended: the store passed to generateResponse is the store at the
\* moment of the send, and when a reply is appended every id of its
\* usedContext is the id of an entry of the store passed to its call.
C4_ContextInStoreAtSend ==
  [][/\ Sent => Last(pending').knowledgeBases = knowledgeBases
     /\ Replied =>
          \E i \in DOMAIN pending :
            /\ pending' = RemoveAt(pending, i)
            /\ Range(Last(messages').usedContext)
                 \subseteq Ids(pending[i].knowledgeBases)]_vars

\* C4 witness: a reply was just appended whose usedContext names an entry
\* deleted between the send and the resolution.
C4_Witness ==
  /\ event = "resolve"
  /\ IsReply(Last(messages))
  /\ \E id \in Range(Last(messages).usedContext) : id \notin Ids(knowledgeBases)

\* C5: Enter without Shift on an input that is not blank appends the user
\* message and starts a response generation, popup open or not.
C5_EnterAlwaysSends ==
  [][(event' = "enter" /\ events' = events + 1 /\ Trim(input) # <<>>)
       => /\ Sent
          /\ Last(messages').content = input]_vars

\* C6: commit resolution returns exactly the store entries whose title is
\* the captured title of some @[Title] token of the text, each once, in
\* store order: for every outstanding call, and for the usedContext of every
\* reply in the log (which answers the message before it).
C6_CommitResolution ==
  /\ \A i \in DOMAIN pending :
       UsedKBs(pending[i].userMessage, pending[i].knowledgeBases)
         = Sub(pending[i].knowledgeBases,
               Mentioned(pending[i].userMessage, pending[i].knowledgeBases))
  /\ \A i \in 2..Len(messages) :
       IsReply(messages[i]) =>
         LET found == Sub(knowledgeBases,
                          Mentioned(messages[i - 1].content, knowledgeBases))
         IN  messages[i].usedContext = [n \in 1..Len(found) |-> found[n].id]

\* C6 witness: a reply to a text that mentions two titles in the order
\* opposite to the store's, one of them held by two entries.
C6_Witness ==
  /\ Len(messages) = 3
  /\ messages[2].content = TextMentionOrder
  /\ messages[3].usedContext = <<StartTime + 1, StartTime + 2, StartTime + 3>>

\* C7: when the text after the last "@" of the input holds no space, it is
\* the recorded query Q, and the suggestion list is the store-ordered
\* subsequence of the entries whose title contains Q ignoring case; the
\* empty query lists every entry.
C7_LiveSuggestions ==
  (view = "chat" /\ QueryStarts(input) # {}) =>
    LET Q == ActiveQuery(input)
        suggested == FilteredKBs(knowledgeBases, mentionQuery)
    IN  /\ mentionQuery = Some(Q)
        /\ suggested = Sub(knowledgeBases,
                           {k \in DOMAIN knowledgeBases :
                              ContainsIgnoringCase(knowledgeBases[k].title, Q)})
        /\ Q = <<>> => suggested = knowledgeBases

\* C7 witness: "check @prod" over the seeded store suggests Product Docs only.
C7_Witness ==
  /\ input = TextCheckProd
  /\ knowledgeBases = SeedKnowledgeBases
  /\ FilteredKBs(knowledgeBases, mentionQuery) = <<SeedKnowledgeBases[1]>>

\* C8: selecting a suggestion with title T rewrites the input to the text
\* before the recorded "@", then "@[T] ", then the text after the partial
\* query; the store and the log are unchanged and the popup is closed; and
\* "check @prod" with "@" at index 6 and T = Product Docs gives
\* "check @[Product Docs] ".
C8_SelectRewritesInput ==
  [][/\ SelectText(TextCheckProd, 6, Some(<<"p", "r", "o", "d">>), TitleProductDocs)
          = TextCheckProductDocs
     /\ (event' = "select" /\ events' = events + 1) =>
          \E k \in DOMAIN knowledgeBases :
            LET T == knowledgeBases[k].title
                upto == Min(mentionIndex, Len(input))
                from == Min(mentionIndex + 1 + Len(mentionQuery[1]), Len(input))
                before == [n \in 1..upto |-> input[n]]
                after == [n \in 1..(Len(input) - from) |-> input[from + n]]
            IN  /\ mentionQuery # Null
                /\ input' = before \o <<"@", "[">> \o T \o <<"]", " ">> \o after
                /\ (QueryStarts(input) # {} =>
                      input = before \o <<"@">> \o mentionQuery[1] \o after)
                /\ mentionQuery' = Null
                /\ knowledgeBases' = knowledgeBases
                /\ messages' = messages]_vars

\* C8 witness: the spec's example has been selected.
C8_Witness ==
  /\ event = "select"
  /\ input = TextCheckProductDocs
  /\ mentionQuery = Null

\* C9: a reply has an empty usedContext and the fallback text, which quotes
\* the user text verbatim, exactly when no entry's title is mentioned by a
\* token of the user text; otherwise its usedContext holds the id of every
\* mentioned entry and its text is not the fallback text.
C9_FallbackIffNoMention ==
  \A i \in 2..Len(messages) :
    IsReply(messages[i]) =>
      LET text == messages[i - 1].content
          hit == Mentioned(text, knowledgeBases)
          fallback ==
            <<"I received your message: \"">> \o text
              \o <<"\". I didn't see any specific knowledge base tagged, so I'm answering with my general training.">>
      IN  /\ hit = {} <=> (messages[i].usedContext = <<>> /\ messages[i].content = fallback)
          /\ hit # {} =>
               /\ \A k \in hit : knowledgeBases[k].id \in Range(messages[i].usedContext)
               /\ messages[i].content # fallback

\* C9 witness: "Summarize @[Product Docs]" was answered with the context of
\* entry 1.
C9_Witness ==
  /\ Len(messages) = 3
  /\ messages[2].content = TextSummarize
  /\ messages[3].usedContext = <<1>>

\* C10: every step leaves the message list as it was or adds messages at
\* its end.
C10_AppendOnly ==
  [][/\ Len(messages') >= Len(messages)
     /\ SubSeq(messages', 1, Len(messages)) = messages]_vars

\* C10 witness: two sends and two replies have been appended.
C10_Witness ==
  /\ Len(messages) = 5
  /\ messages[2].role = "user"
  /\ messages[3].role = "user"

\* C11: when the composer input has no active mention query (no "@", or a
\* space after its last "@"), the popup is not shown: mentionQuery is null
\* and the suggestion list is empty.
C11_NoQueryNoPopup ==
  (view = "chat" /\ QueryStarts(input) = {}) =>
    /\ mentionQuery = Null
    /\ FilteredKBs(knowledgeBases, mentionQuery) = <<>>

UserCount(log) == Cardinality({i \in DOMAIN log : log[i].role = "user"})

ReplyCount(log) == Cardinality({i \in DOMAIN log : IsReply(log[i])})

\* C12: every accepted send is eventually followed by exactly one reply,
\* appended after its user message, also when the chat view was left in
\* between: the replies and the calls still owed are as many as the user
\* messages, no prefix of the log holds more replies than user messages,
\* and the k-th user message leads to a k-th reply.
C12_EverySendIsAnswered ==
  /\ [](/\ ReplyCount(messages) + Len(pending) = UserCount(messages)
        /\ \A n \in 1..Len(messages) :
             ReplyCount(SubSeq(messages, 1, n)) <= UserCount(SubSeq(messages, 1, n)))
  /\ \A k \in 1..MaxMsgs :
       (UserCount(messages) >= k) ~> (ReplyCount(messages) >= k)

\* C12 witness: a reply was appended while the knowledge view is shown, so
\* the instance that sent the message is unmounted.
C12_Witness ==
  /\ event = "resolve"
  /\ view = "knowledge"
  /\ IsReply(Last(messages))
  /\ ReplyCount(messages) = UserCount(messages)

\* C13: all messages of the conversation log have pairwise distinct ids.
C13_UniqueMessageIds ==
  \A i, j \in DOMAIN messages : i # j => messages[i].id # messages[j].id

====
